---- MODULE Spec2Model ----
(***************************************************************************)
(* Model of carero_checker.py: one run of the script fetches the supplier  *)
(* feed, parses it, restricts it to the tracked SKUs, diffs it against the *)
(* snapshot inventory_previous.csv, overwrites the snapshot, writes the    *)
(* sorted report and, when new alerts exist and mail is configured, sends  *)
(* one e-mail.  Runs follow one another; the snapshot file is the only     *)
(* state that survives from one run to the next.                           *)
(*                                                                         *)
(* A text (Python str) is a sequence of characters, one string each.  A    *)
(* printable ASCII character, tab, line feed, form feed and carriage       *)
(* return are written as themselves ("A", "\t", "\n", "\f", "\r"); any     *)
(* other character is written as the name of its code point, "U+" and four *)
(* or more hexadecimal digits ("U+000B" is the vertical tab, "U+00A0" the  *)
(* no-break space, "U+0663" ARABIC-INDIC DIGIT THREE).  The characters of  *)
(* the model are ASCII, the whitespace of str.isspace() and the decimal    *)
(* digits of Unicode 14 (CPython 3.11); letters outside ASCII are not      *)
(* modelled.  Integers are TLC's: a number of more than nine digits has no *)
(* value in the model.                                                     *)
(*                                                                         *)
(* An optional value (None, or a regex match that may be missing) is a     *)
(* sequence of length 0 or 1.                                              *)
(*                                                                         *)
(* The snapshot is written by csv.writer and read back by the C parser of  *)
(* pandas as on Linux with CPython up to 3.12: lines end in "\n", and a    *)
(* carriage return alone does not make a cell quoted.  Floats are IEEE     *)
(* doubles, every product, sum and quotient rounded once.                  *)
(***************************************************************************)
EXTENDS Integers, Sequences, FiniteSets, TLC

\* ------------------------------------------------------------------ bounds
\* Longest feed (number of <SHOPITEM> elements) a run receives.
MaxFeed == 2

\* ------------------------------------------------------- program constants
CRITICAL_STOCK == 10
WARNING_STOCK == 20

\* ------------------------------------------------------------------- texts
None == << >>
Some(x) == << x >>

DigitChars == <<"0", "1", "2", "3", "4", "5", "6", "7", "8", "9">>
LowerChars == <<"a", "b", "c", "d", "e", "f", "g", "h", "i", "j", "k", "l", "m",
                "n", "o", "p", "q", "r", "s", "t", "u", "v", "w", "x", "y", "z">>
UpperChars == <<"A", "B", "C", "D", "E", "F", "G", "H", "I", "J", "K", "L", "M",
                "N", "O", "P", "Q", "R", "S", "T", "U", "V", "W", "X", "Y", "Z">>

\* The characters str.strip() removes: those for which str.isspace() holds.
SpaceChars ==
    { " ", "\t", "\n", "U+000B", "\f", "\r",
      "U+001C", "U+001D", "U+001E", "U+001F", "U+0085", "U+00A0", "U+1680",
      "U+2000", "U+2001", "U+2002", "U+2003", "U+2004", "U+2005", "U+2006",
      "U+2007", "U+2008", "U+2009", "U+200A", "U+2028", "U+2029", "U+202F",
      "U+205F", "U+3000" }

\* The characters int() ignores around a number: the whitespace above
\* without the four separators U+001C..U+001F.
IntSpaceChars == SpaceChars \ {"U+001C", "U+001D", "U+001E", "U+001F"}

\* The decimal digits outside ASCII (general category Nd), in runs of ten:
\* the digits 0..9 of one script each.
UnicodeDigits ==
    <<
       << "U+0660", "U+0661", "U+0662", "U+0663", "U+0664",
          "U+0665", "U+0666", "U+0667", "U+0668", "U+0669" >>,
       << "U+06F0", "U+06F1", "U+06F2", "U+06F3", "U+06F4",
          "U+06F5", "U+06F6", "U+06F7", "U+06F8", "U+06F9" >>,
       << "U+07C0", "U+07C1", "U+07C2", "U+07C3", "U+07C4",
          "U+07C5", "U+07C6", "U+07C7", "U+07C8", "U+07C9" >>,
       << "U+0966", "U+0967", "U+0968", "U+0969", "U+096A",
          "U+096B", "U+096C", "U+096D", "U+096E", "U+096F" >>,
       << "U+09E6", "U+09E7", "U+09E8", "U+09E9", "U+09EA",
          "U+09EB", "U+09EC", "U+09ED", "U+09EE", "U+09EF" >>,
       << "U+0A66", "U+0A67", "U+0A68", "U+0A69", "U+0A6A",
          "U+0A6B", "U+0A6C", "U+0A6D", "U+0A6E", "U+0A6F" >>,
       << "U+0AE6", "U+0AE7", "U+0AE8", "U+0AE9", "U+0AEA",
          "U+0AEB", "U+0AEC", "U+0AED", "U+0AEE", "U+0AEF" >>,
       << "U+0B66", "U+0B67", "U+0B68", "U+0B69", "U+0B6A",
          "U+0B6B", "U+0B6C", "U+0B6D", "U+0B6E", "U+0B6F" >>,
       << "U+0BE6", "U+0BE7", "U+0BE8", "U+0BE9", "U+0BEA",
          "U+0BEB", "U+0BEC", "U+0BED", "U+0BEE", "U+0BEF" >>,
       << "U+0C66", "U+0C67", "U+0C68", "U+0C69", "U+0C6A",
          "U+0C6B", "U+0C6C", "U+0C6D", "U+0C6E", "U+0C6F" >>,
       << "U+0CE6", "U+0CE7", "U+0CE8", "U+0CE9", "U+0CEA",
          "U+0CEB", "U+0CEC", "U+0CED", "U+0CEE", "U+0CEF" >>,
       << "U+0D66", "U+0D67", "U+0D68", "U+0D69", "U+0D6A",
          "U+0D6B", "U+0D6C", "U+0D6D", "U+0D6E", "U+0D6F" >>,
       << "U+0DE6", "U+0DE7", "U+0DE8", "U+0DE9", "U+0DEA",
          "U+0DEB", "U+0DEC", "U+0DED", "U+0DEE", "U+0DEF" >>,
       << "U+0E50", "U+0E51", "U+0E52", "U+0E53", "U+0E54",
          "U+0E55", "U+0E56", "U+0E57", "U+0E58", "U+0E59" >>,
       << "U+0ED0", "U+0ED1", "U+0ED2", "U+0ED3", "U+0ED4",
          "U+0ED5", "U+0ED6", "U+0ED7", "U+0ED8", "U+0ED9" >>,
       << "U+0F20", "U+0F21", "U+0F22", "U+0F23", "U+0F24",
          "U+0F25", "U+0F26", "U+0F27", "U+0F28", "U+0F29" >>,
       << "U+1040", "U+1041", "U+1042", "U+1043", "U+1044",
          "U+1045", "U+1046", "U+1047", "U+1048", "U+1049" >>,
       << "U+1090", "U+1091", "U+1092", "U+1093", "U+1094",
          "U+1095", "U+1096", "U+1097", "U+1098", "U+1099" >>,
       << "U+17E0", "U+17E1", "U+17E2", "U+17E3", "U+17E4",
          "U+17E5", "U+17E6", "U+17E7", "U+17E8", "U+17E9" >>,
       << "U+1810", "U+1811", "U+1812", "U+1813", "U+1814",
          "U+1815", "U+1816", "U+1817", "U+1818", "U+1819" >>,
       << "U+1946", "U+1947", "U+1948", "U+1949", "U+194A",
          "U+194B", "U+194C", "U+194D", "U+194E", "U+194F" >>,
       << "U+19D0", "U+19D1", "U+19D2", "U+19D3", "U+19D4",
          "U+19D5", "U+19D6", "U+19D7", "U+19D8", "U+19D9" >>,
       << "U+1A80", "U+1A81", "U+1A82", "U+1A83", "U+1A84",
          "U+1A85", "U+1A86", "U+1A87", "U+1A88", "U+1A89" >>,
       << "U+1A90", "U+1A91", "U+1A92", "U+1A93", "U+1A94",
          "U+1A95", "U+1A96", "U+1A97", "U+1A98", "U+1A99" >>,
       << "U+1B50", "U+1B51", "U+1B52", "U+1B53", "U+1B54",
          "U+1B55", "U+1B56", "U+1B57", "U+1B58", "U+1B59" >>,
       << "U+1BB0", "U+1BB1", "U+1BB2", "U+1BB3", "U+1BB4",
          "U+1BB5", "U+1BB6", "U+1BB7", "U+1BB8", "U+1BB9" >>,
       << "U+1C40", "U+1C41", "U+1C42", "U+1C43", "U+1C44",
          "U+1C45", "U+1C46", "U+1C47", "U+1C48", "U+1C49" >>,
       << "U+1C50", "U+1C51", "U+1C52", "U+1C53", "U+1C54",
          "U+1C55", "U+1C56", "U+1C57", "U+1C58", "U+1C59" >>,
       << "U+A620", "U+A621", "U+A622", "U+A623", "U+A624",
          "U+A625", "U+A626", "U+A627", "U+A628", "U+A629" >>,
       << "U+A8D0", "U+A8D1", "U+A8D2", "U+A8D3", "U+A8D4",
          "U+A8D5", "U+A8D6", "U+A8D7", "U+A8D8", "U+A8D9" >>,
       << "U+A900", "U+A901", "U+A902", "U+A903", "U+A904",
          "U+A905", "U+A906", "U+A907", "U+A908", "U+A909" >>,
       << "U+A9D0", "U+A9D1", "U+A9D2", "U+A9D3", "U+A9D4",
          "U+A9D5", "U+A9D6", "U+A9D7", "U+A9D8", "U+A9D9" >>,
       << "U+A9F0", "U+A9F1", "U+A9F2", "U+A9F3", "U+A9F4",
          "U+A9F5", "U+A9F6", "U+A9F7", "U+A9F8", "U+A9F9" >>,
       << "U+AA50", "U+AA51", "U+AA52", "U+AA53", "U+AA54",
          "U+AA55", "U+AA56", "U+AA57", "U+AA58", "U+AA59" >>,
       << "U+ABF0", "U+ABF1", "U+ABF2", "U+ABF3", "U+ABF4",
          "U+ABF5", "U+ABF6", "U+ABF7", "U+ABF8", "U+ABF9" >>,
       << "U+FF10", "U+FF11", "U+FF12", "U+FF13", "U+FF14",
          "U+FF15", "U+FF16", "U+FF17", "U+FF18", "U+FF19" >>,
       << "U+104A0", "U+104A1", "U+104A2", "U+104A3", "U+104A4",
          "U+104A5", "U+104A6", "U+104A7", "U+104A8", "U+104A9" >>,
       << "U+10D30", "U+10D31", "U+10D32", "U+10D33", "U+10D34",
          "U+10D35", "U+10D36", "U+10D37", "U+10D38", "U+10D39" >>,
       << "U+11066", "U+11067", "U+11068", "U+11069", "U+1106A",
          "U+1106B", "U+1106C", "U+1106D", "U+1106E", "U+1106F" >>,
       << "U+110F0", "U+110F1", "U+110F2", "U+110F3", "U+110F4",
          "U+110F5", "U+110F6", "U+110F7", "U+110F8", "U+110F9" >>,
       << "U+11136", "U+11137", "U+11138", "U+11139", "U+1113A",
          "U+1113B", "U+1113C", "U+1113D", "U+1113E", "U+1113F" >>,
       << "U+111D0", "U+111D1", "U+111D2", "U+111D3", "U+111D4",
          "U+111D5", "U+111D6", "U+111D7", "U+111D8", "U+111D9" >>,
       << "U+112F0", "U+112F1", "U+112F2", "U+112F3", "U+112F4",
          "U+112F5", "U+112F6", "U+112F7", "U+112F8", "U+112F9" >>,
       << "U+11450", "U+11451", "U+11452", "U+11453", "U+11454",
          "U+11455", "U+11456", "U+11457", "U+11458", "U+11459" >>,
       << "U+114D0", "U+114D1", "U+114D2", "U+114D3", "U+114D4",
          "U+114D5", "U+114D6", "U+114D7", "U+114D8", "U+114D9" >>,
       << "U+11650", "U+11651", "U+11652", "U+11653", "U+11654",
          "U+11655", "U+11656", "U+11657", "U+11658", "U+11659" >>,
       << "U+116C0", "U+116C1", "U+116C2", "U+116C3", "U+116C4",
          "U+116C5", "U+116C6", "U+116C7", "U+116C8", "U+116C9" >>,
       << "U+11730", "U+11731", "U+11732", "U+11733", "U+11734",
          "U+11735", "U+11736", "U+11737", "U+11738", "U+11739" >>,
       << "U+118E0", "U+118E1", "U+118E2", "U+118E3", "U+118E4",
          "U+118E5", "U+118E6", "U+118E7", "U+118E8", "U+118E9" >>,
       << "U+11950", "U+11951", "U+11952", "U+11953", "U+11954",
          "U+11955", "U+11956", "U+11957", "U+11958", "U+11959" >>,
       << "U+11C50", "U+11C51", "U+11C52", "U+11C53", "U+11C54",
          "U+11C55", "U+11C56", "U+11C57", "U+11C58", "U+11C59" >>,
       << "U+11D50", "U+11D51", "U+11D52", "U+11D53", "U+11D54",
          "U+11D55", "U+11D56", "U+11D57", "U+11D58", "U+11D59" >>,
       << "U+11DA0", "U+11DA1", "U+11DA2", "U+11DA3", "U+11DA4",
          "U+11DA5", "U+11DA6", "U+11DA7", "U+11DA8", "U+11DA9" >>,
       << "U+16A60", "U+16A61", "U+16A62", "U+16A63", "U+16A64",
          "U+16A65", "U+16A66", "U+16A67", "U+16A68", "U+16A69" >>,
       << "U+16AC0", "U+16AC1", "U+16AC2", "U+16AC3", "U+16AC4",
          "U+16AC5", "U+16AC6", "U+16AC7", "U+16AC8", "U+16AC9" >>,
       << "U+16B50", "U+16B51", "U+16B52", "U+16B53", "U+16B54",
          "U+16B55", "U+16B56", "U+16B57", "U+16B58", "U+16B59" >>,
       << "U+1D7CE", "U+1D7CF", "U+1D7D0", "U+1D7D1", "U+1D7D2",
          "U+1D7D3", "U+1D7D4", "U+1D7D5", "U+1D7D6", "U+1D7D7" >>,
       << "U+1D7D8", "U+1D7D9", "U+1D7DA", "U+1D7DB", "U+1D7DC",
          "U+1D7DD", "U+1D7DE", "U+1D7DF", "U+1D7E0", "U+1D7E1" >>,
       << "U+1D7E2", "U+1D7E3", "U+1D7E4", "U+1D7E5", "U+1D7E6",
          "U+1D7E7", "U+1D7E8", "U+1D7E9", "U+1D7EA", "U+1D7EB" >>,
       << "U+1D7EC", "U+1D7ED", "U+1D7EE", "U+1D7EF", "U+1D7F0",
          "U+1D7F1", "U+1D7F2", "U+1D7F3", "U+1D7F4", "U+1D7F5" >>,
       << "U+1D7F6", "U+1D7F7", "U+1D7F8", "U+1D7F9", "U+1D7FA",
          "U+1D7FB", "U+1D7FC", "U+1D7FD", "U+1D7FE", "U+1D7FF" >>,
       << "U+1E140", "U+1E141", "U+1E142", "U+1E143", "U+1E144",
          "U+1E145", "U+1E146", "U+1E147", "U+1E148", "U+1E149" >>,
       << "U+1E2F0", "U+1E2F1", "U+1E2F2", "U+1E2F3", "U+1E2F4",
          "U+1E2F5", "U+1E2F6", "U+1E2F7", "U+1E2F8", "U+1E2F9" >>,
       << "U+1E950", "U+1E951", "U+1E952", "U+1E953", "U+1E954",
          "U+1E955", "U+1E956", "U+1E957", "U+1E958", "U+1E959" >>,
       << "U+1FBF0", "U+1FBF1", "U+1FBF2", "U+1FBF3", "U+1FBF4",
          "U+1FBF5", "U+1FBF6", "U+1FBF7", "U+1FBF8", "U+1FBF9" >>
    >>

UnicodeDigitChars ==
    {UnicodeDigits[r][i] : r \in 1..Len(UnicodeDigits), i \in 1..10}

\* int() refuses a text of more than this many digits
\* (sys.get_int_max_str_digits()).
INT_MAX_STR_DIGITS == 4300

IsDigit(c) == \E i \in 1..10 : DigitChars[i] = c
DigitVal(c) == (CHOOSE i \in 1..10 : DigitChars[i] = c) - 1

\* A character int() reads as a decimal digit, and its value.
IsPyDigit(c) == IsDigit(c) \/ c \in UnicodeDigitChars
PyDigitVal(c) ==
    IF IsDigit(c) THEN DigitVal(c)
    ELSE (CHOOSE i \in 1..10 :
              \E r \in 1..Len(UnicodeDigits) : UnicodeDigits[r][i] = c) - 1

\* str.upper() on one character
UpperChar(c) ==
    IF \E i \in 1..26 : LowerChars[i] = c
    THEN UpperChars[CHOOSE i \in 1..26 : LowerChars[i] = c]
    ELSE c

\* str.upper()
Upper(s) == [i \in 1..Len(s) |-> UpperChar(s[i])]

\* s without its leading characters of the set ws.
RECURSIVE LStripOf(_, _)
LStripOf(s, ws) ==
    IF s # << >> /\ Head(s) \in ws THEN LStripOf(Tail(s), ws) ELSE s

\* s without its trailing characters of the set ws.
RECURSIVE RStripOf(_, _)
RStripOf(s, ws) ==
    IF s # << >> /\ s[Len(s)] \in ws
    THEN RStripOf(SubSeq(s, 1, Len(s) - 1), ws)
    ELSE s

\* str.strip()
Strip(s) == RStripOf(LStripOf(s, SpaceChars), SpaceChars)

\* Value of a run of decimal digits in which single underscores may separate
\* digits (the caller has checked the shape).
RECURSIVE DigitsValue(_, _)
DigitsValue(s, acc) ==
    IF s = << >> THEN acc
    ELSE IF Head(s) = "_" THEN DigitsValue(Tail(s), acc)
    ELSE DigitsValue(Tail(s), 10 * acc + PyDigitVal(Head(s)))

\* Python's integer literal body: decimal digits of any script, with
\* single underscores only between two digits.
IsPyDigits(s) ==
    /\ s # << >>
    /\ \A i \in 1..Len(s) : IsPyDigit(s[i]) \/ s[i] = "_"
    /\ IsPyDigit(s[1]) /\ IsPyDigit(s[Len(s)])
    /\ \A i \in 1..(Len(s) - 1) : ~(s[i] = "_" /\ s[i + 1] = "_")

\* The digits of a literal body, leading zeros included.
DigitCount(s) == Cardinality({i \in 1..Len(s) : s[i] # "_"})

\* int(text): surrounding whitespace is ignored, one sign is accepted, a
\* text of more than INT_MAX_STR_DIGITS digits is refused.
\* [ok |-> FALSE] stands for ValueError.
PyInt(text) ==
    LET t == RStripOf(LStripOf(text, IntSpaceChars), IntSpaceChars)
        signed == t # << >> /\ Head(t) \in {"+", "-"}
        body == IF signed THEN Tail(t) ELSE t
    IN  IF IsPyDigits(body) /\ DigitCount(body) <= INT_MAX_STR_DIGITS
        THEN [ok |-> TRUE,
              val |-> IF signed /\ Head(t) = "-"
                      THEN 0 - DigitsValue(body, 0)
                      ELSE DigitsValue(body, 0)]
        ELSE [ok |-> FALSE, val |-> 0]

\* str(n) for an integer, as to_csv writes the stock column.
RECURSIVE NatText(_)
NatText(n) ==
    IF n < 10 THEN << DigitChars[n + 1] >>
    ELSE Append(NatText(n \div 10), DigitChars[(n % 10) + 1])

IntText(n) == IF n < 0 THEN << "-" >> \o NatText(0 - n) ELSE NatText(n)


\* ------------------------------------------------------------- feed parsing
\* One <SHOPITEM> element: the text between each pair of tags the script
\* searches for, or None when re.search finds no such tag.
Entry(id, stock, name, group) ==
    [ID_PRODUCT |-> id, SKLADOVOST |-> stock, PRODUCT |-> name, SKUPINA |-> group]

Unknown == <<"U", "n", "k", "n", "o", "w", "n">>

\* try: stock = int(stock_txt.group(1))  except: stock = 0
ParseStock(stock_txt) ==
    IF PyInt(stock_txt).ok THEN PyInt(stock_txt).val ELSE 0

\* The dict appended to items for an element that has both tags.
ParseItem(e) ==
    [sku |-> Upper(Strip(e.ID_PRODUCT[1])),
     stock |-> ParseStock(e.SKLADOVOST[1]),
     name |-> IF e.PRODUCT # None THEN Strip(e.PRODUCT[1]) ELSE Unknown,
     group_id |-> IF e.SKUPINA # None THEN Strip(e.SKUPINA[1]) ELSE << >>]

\* if sku and stock_txt:
HasSkuAndStock(e) == e.ID_PRODUCT # None /\ e.SKLADOVOST # None

\* The parse loop: elements without an ID or a stock tag are skipped.
RECURSIVE ParseFeed(_)
ParseFeed(xml) ==
    IF xml = << >> THEN << >>
    ELSE IF HasSkuAndStock(Head(xml))
         THEN << ParseItem(Head(xml)) >> \o ParseFeed(Tail(xml))
         ELSE ParseFeed(Tail(xml))

\* Variant: the empty-intersection check is missing.
NoMatch_Never(cur) == FALSE

\* if not current:
NoMatch(cur) == cur = << >>

\* i["sku"] in my_skus
IsTracked(sku, skus) == \E k \in 1..Len(skus) : skus[k] = sku

\* current = [i for i in items if i["sku"] in my_skus]
RECURSIVE FilterTracked(_, _)
FilterTracked(its, skus) ==
    IF its = << >> THEN << >>
    ELSE IF IsTracked(Head(its).sku, skus)
         THEN << Head(its) >> \o FilterTracked(Tail(its), skus)
         ELSE FilterTracked(Tail(its), skus)

\* ------------------------------------------------------------ snapshot file
\* inventory_previous.csv: absent, or the rows written under the header
\* sku,stock, each cell as the text written.
NoFile == [exists |-> FALSE, rows |-> << >>]

\* pd.DataFrame(current)[["sku", "stock"]].to_csv(..., index=False): the
\* rows written.
ToCsv(cur) ==
    [exists |-> TRUE,
     rows |-> [i \in 1..Len(cur) |->
                  [sku |-> cur[i].sku, stock |-> IntText(cur[i].stock)]]]

\* The text of the file.  to_csv writes through csv.writer with
\* QUOTE_MINIMAL: a cell is put in double quotes, its own quotes doubled,
\* when it holds the delimiter, the quote character or a character of the
\* line terminator (os.linesep, "\n"); a carriage return alone does not
\* make it quoted.
RECURSIVE DoubleQuotes(_)
DoubleQuotes(s) ==
    IF s = << >> THEN << >>
    ELSE (IF Head(s) = "\"" THEN << "\"", "\"" >> ELSE << Head(s) >>)
         \o DoubleQuotes(Tail(s))
CsvCell(s) ==
    IF \E i \in 1..Len(s) : s[i] \in {",", "\"", "\n"}
    THEN << "\"" >> \o DoubleQuotes(s) \o << "\"" >>
    ELSE s
RECURSIVE CsvLines(_)
CsvLines(rows) ==
    IF rows = << >> THEN << >>
    ELSE CsvCell(Head(rows).sku) \o << "," >> \o CsvCell(Head(rows).stock)
         \o << "\n" >> \o CsvLines(Tail(rows))
CsvText(file) ==
    << "s", "k", "u", ",", "s", "t", "o", "c", "k", "\n" >> \o CsvLines(file.rows)

\* ---- the tokenizer of read_csv (tokenize_bytes, with the defaults of
\* read_csv: delimiter ",", quote character ", doubled quotes, blank lines
\* skipped).  It reads the text a character at a time: i is the place of
\* the next one, field the characters of the field being read, row the
\* fields of the line being read, rows the lines read.
TokenizerStart ==
    [state |-> "START_RECORD", i |-> 1, field |-> << >>, row |-> << >>,
     rows |-> << >>]
Advance(st, state) == [st EXCEPT !.state = state, !.i = @ + 1]
\* PUSH_CHAR
PushChar(st, c, state) ==
    [st EXCEPT !.field = @ \o << c >>, !.state = state, !.i = @ + 1]
\* END_FIELD
EndField(st, state) ==
    [st EXCEPT !.row = @ \o << st.field >>, !.field = << >>, !.state = state,
               !.i = @ + 1]
\* END_LINE
EndLine(st) ==
    [st EXCEPT !.rows = @ \o << st.row >>, !.row = << >>,
               !.state = "START_RECORD"]

StartField(st, c) ==
    IF c = "\n" THEN EndLine(EndField(st, "START_RECORD"))
    ELSE IF c = "\r" THEN EndField(st, "EAT_CRNL")
    ELSE IF c = "\"" THEN Advance(st, "IN_QUOTED_FIELD")
    ELSE IF c = "," THEN EndField(st, "START_FIELD")
    ELSE PushChar(st, c, "IN_FIELD")
\* A line that is empty is skipped; one that starts with a blank may turn
\* out to hold blanks only.
StartRecord(st, c) ==
    IF c = "\n" THEN Advance(st, "START_RECORD")
    ELSE IF c = "\r" THEN Advance(st, "EAT_CRNL_NOP")
    ELSE IF c \in {" ", "\t"} THEN Advance(st, "WHITESPACE_LINE")
    ELSE StartField(st, c)
\* A carriage return outside quotes ends the field and the line.
InField(st, c) ==
    IF c = "\n" THEN EndLine(EndField(st, "START_RECORD"))
    ELSE IF c = "\r" THEN EndField(st, "EAT_CRNL")
    ELSE IF c = "," THEN EndField(st, "START_FIELD")
    ELSE PushChar(st, c, "IN_FIELD")
InQuotedField(st, c) ==
    IF c = "\"" THEN Advance(st, "QUOTE_IN_QUOTED_FIELD")
    ELSE PushChar(st, c, "IN_QUOTED_FIELD")
QuoteInQuotedField(st, c) ==
    IF c = "\"" THEN PushChar(st, c, "IN_QUOTED_FIELD")
    ELSE IF c = "," THEN EndField(st, "START_FIELD")
    ELSE IF c = "\n" THEN EndLine(EndField(st, "START_RECORD"))
    ELSE IF c = "\r" THEN EndField(st, "EAT_CRNL")
    ELSE PushChar(st, c, "IN_FIELD")
\* After a carriage return that ended a line: a line feed belongs to it,
\* any other character is read again as the start of the next line.
EatCrnl(st, c) ==
    IF c = "\n" THEN Advance(EndLine(st), "START_RECORD")
    ELSE IF c = "," THEN EndField(EndLine(st), "START_FIELD")
    ELSE EndLine(st)
\* The same after a skipped line.
EatCrnlNop(st, c) ==
    IF c \in {"\n", ","} THEN Advance(st, "START_RECORD")
    ELSE [st EXCEPT !.state = "START_RECORD"]
\* A line that began with blanks and holds something else is read again
\* as a field, from the character after the last line feed before it.
\* (When a carriage return, not a line feed, started the line, that is the
\* line before: the tokenizer reads it again and again, and Tokenize has
\* no value.)
LineStart(text, i) ==
    IF \E j \in 1..(i - 1) : text[j] = "\n"
    THEN 1 + CHOOSE j \in 1..(i - 1) :
                 text[j] = "\n" /\ \A k \in (j + 1)..(i - 1) : text[k] # "\n"
    ELSE 1
WhitespaceLine(text, st, c) ==
    IF c = "\n" THEN Advance(st, "START_RECORD")
    ELSE IF c = "\r" THEN Advance(st, "EAT_CRNL_NOP")
    ELSE IF c \in {" ", "\t"} THEN Advance(st, "WHITESPACE_LINE")
    ELSE [st EXCEPT !.state = "START_FIELD", !.i = LineStart(text, st.i)]

TokenStep(text, st, c) ==
    CASE st.state = "START_RECORD" -> StartRecord(st, c)
      [] st.state = "START_FIELD" -> StartField(st, c)
      [] st.state = "IN_FIELD" -> InField(st, c)
      [] st.state = "IN_QUOTED_FIELD" -> InQuotedField(st, c)
      [] st.state = "QUOTE_IN_QUOTED_FIELD" -> QuoteInQuotedField(st, c)
      [] st.state = "EAT_CRNL" -> EatCrnl(st, c)
      [] st.state = "EAT_CRNL_NOP" -> EatCrnlNop(st, c)
      [] st.state = "WHITESPACE_LINE" -> WhitespaceLine(text, st, c)
\* parser_handle_eof: a field or a line being read is ended.  (The text
\* to_csv writes closes every quoted cell, so it never ends inside one.)
AtEof(st) ==
    IF st.state \in {"START_RECORD", "WHITESPACE_LINE", "EAT_CRNL_NOP"}
    THEN st.rows
    ELSE IF st.state = "EAT_CRNL" THEN EndLine(st).rows
    ELSE EndLine(EndField(st, "START_RECORD")).rows
RECURSIVE Tokenize(_, _)
Tokenize(text, st) ==
    IF st.i > Len(text) THEN AtEof(st)
    ELSE Tokenize(text, TokenStep(text, st, text[st.i]))

\* The file as read_csv takes it: the first line names the columns, each
\* line after it is a row; a row shorter than the header is filled up with
\* empty fields (end_line), which read as NA.
CsvRows(lines) ==
    [i \in 1..(Len(lines) - 1) |->
        [sku |-> lines[i + 1][1],
         stock |-> IF Len(lines[i + 1]) > 1 THEN lines[i + 1][2] ELSE << >>]]
ReadCsv(file) == CsvRows(Tokenize(CsvText(file), TokenizerStart))

\* The fields read_csv turns into NaN (pandas' default na_values).
CsvNaTokens ==
    { << >>, <<"N", "A">>, <<"N", "/", "A">>, <<"N", "U", "L", "L">>,
      <<"N", "a", "N">>, <<"n", "a", "n">>, <<"n", "u", "l", "l">>,
      <<"n", "/", "a">>, <<"N", "o", "n", "e">>, <<"#", "N", "/", "A">>,
      <<"#", "N", "A">>, <<"<", "N", "A", ">">>, <<"-", "N", "a", "N">>,
      <<"-", "n", "a", "n">>,
      <<"#", "N", "/", "A", " ", "N", "/", "A">>,
      <<"-", "1", ".", "#", "I", "N", "D">>,
      <<"-", "1", ".", "#", "Q", "N", "A", "N">>,
      <<"1", ".", "#", "I", "N", "D">>,
      <<"1", ".", "#", "Q", "N", "A", "N">> }

\* The blanks the number parsers of read_csv skip around a field
\* (isspace_ascii).
CsvSpaceChars == {" ", "\t", "\n", "U+000B", "\f", "\r"}

\* How many ASCII digits s starts with.
RECURSIVE DigitPrefixLen(_)
DigitPrefixLen(s) ==
    IF s # << >> /\ IsDigit(Head(s)) THEN 1 + DigitPrefixLen(Tail(s)) ELSE 0

\* A field read_csv converts to an integer: blanks, an optional sign, ASCII
\* digits, blanks.
IsCsvInt(f) ==
    LET body == LStripOf(f, CsvSpaceChars)
    IN  /\ body # << >>
        /\ IF Head(body) \in {"+", "-"}
           THEN /\ DigitPrefixLen(Tail(body)) > 0
                /\ LStripOf(SubSeq(Tail(body), DigitPrefixLen(Tail(body)) + 1,
                                   Len(body) - 1), CsvSpaceChars) = << >>
           ELSE /\ DigitPrefixLen(body) > 0
                /\ LStripOf(SubSeq(body, DigitPrefixLen(body) + 1, Len(body)),
                            CsvSpaceChars) = << >>

SignedIntVal(t) ==
    IF t # << >> /\ Head(t) = "-"
    THEN 0 - DigitsValue(SubSeq(Tail(t), 1, DigitPrefixLen(Tail(t))), 0)
    ELSE IF t # << >> /\ Head(t) = "+"
         THEN DigitsValue(SubSeq(Tail(t), 1, DigitPrefixLen(Tail(t))), 0)
         ELSE DigitsValue(SubSeq(t, 1, DigitPrefixLen(t)), 0)
CsvIntVal(f) == SignedIntVal(LStripOf(f, CsvSpaceChars))

\* The parts of a field the number parsers of read_csv step over.
IsNeg(t) == t # << >> /\ Head(t) = "-"
SkipSign(t) == IF t # << >> /\ Head(t) \in {"+", "-"} THEN Tail(t) ELSE t
AfterDigits(s) == SubSeq(s, DigitPrefixLen(s) + 1, Len(s))

\* ---- whole numbers of any size
\* The float parser of read_csv computes with C doubles.  A double is
\* m * 2^x with m below 2^53, numbers too large for the integers of this
\* module, so m is kept as a sequence of limbs: base-32768 digits, the
\* lowest first, no zero limb at the top (<< >> is 0).  The operators
\* recurse little, so that they can be evaluated on numbers of a thousand
\* binary digits.
LimbBits == 15
Base == 32768

RECURSIVE Pow2(_)
Pow2(k) == IF k = 0 THEN 1 ELSE 2 * Pow2(k - 1)

RECURSIVE BigTrim(_)
BigTrim(a) ==
    IF a # << >> /\ a[Len(a)] = 0 THEN BigTrim(SubSeq(a, 1, Len(a) - 1)) ELSE a

\* Limbs that have grown beyond Base - 1, their carries moved up until
\* none is left.
Carried(v) ==
    [i \in 1..(Len(v) + 1) |->
        (IF i <= Len(v) THEN v[i] % Base ELSE 0)
        + (IF i > 1 THEN v[i - 1] \div Base ELSE 0)]
RECURSIVE BigNorm(_)
BigNorm(v) ==
    IF \A i \in 1..Len(v) : v[i] < Base THEN BigTrim(v) ELSE BigNorm(Carried(v))

IntOfBig(a) ==
    (IF Len(a) > 0 THEN a[1] ELSE 0) + (IF Len(a) > 1 THEN a[2] * Base ELSE 0)
    + (IF Len(a) > 2 THEN a[3] * Base * Base ELSE 0)

LimbAt(a, i) == IF i >= 1 /\ i <= Len(a) THEN a[i] ELSE 0

\* a * k + c for k and c below Base.
BigMulAdd(a, k, c) ==
    BigNorm([i \in 1..(Len(a) + 1) |->
                LimbAt(a, i) * k + (IF i = 1 THEN c ELSE 0)])

BigAdd(a, b) ==
    BigNorm([i \in 1..(Len(a) + Len(b) + 1) |-> LimbAt(a, i) + LimbAt(b, i)])

\* a - b for a >= b: a plus the complement of b plus 1, less the carry out
\* of the top.
BigSub(a, b) ==
    BigTrim(SubSeq(BigNorm([i \in 1..(Len(a) + 1) |->
                               IF i > Len(a) THEN Base - 1
                               ELSE LimbAt(a, i) + (Base - 1 - LimbAt(b, i))
                                    + (IF i = 1 THEN 1 ELSE 0)]),
                   1, Len(a)))

\* -1, 0 or 1 as a is below, equal to or above b.
TopDiffering(a, b) ==
    CHOOSE i \in 1..Len(a) : a[i] # b[i] /\ \A j \in (i + 1)..Len(a) : a[j] = b[j]
BigCmp(a, b) ==
    IF Len(a) < Len(b) THEN 0 - 1
    ELSE IF Len(a) > Len(b) THEN 1
    ELSE IF a = b THEN 0
    ELSE IF a[TopDiffering(a, b)] < b[TopDiffering(a, b)] THEN 0 - 1
    ELSE 1

\* a * b: limb k of the product collects the low halves of the limb
\* products a[i] * b[k + 1 - i] and the high halves of a[i] * b[k - i].
RECURSIVE SumOf(_, _)
SumOf(f, n) == IF n = 0 THEN 0 ELSE f[n] + SumOf(f, n - 1)
Halves(a, b, k) ==
    [i \in 1..Len(a) |-> ((a[i] * LimbAt(b, k + 1 - i)) % Base)
                         + ((a[i] * LimbAt(b, k - i)) \div Base)]
BigMul(a, b) ==
    IF a = << >> \/ b = << >> THEN << >>
    ELSE BigNorm([k \in 1..(Len(a) + Len(b)) |-> SumOf(Halves(a, b, k), Len(a))])

\* 10^k by squaring.
RECURSIVE BigPow10(_)
BigPow10(k) ==
    IF k = 0 THEN << 1 >>
    ELSE IF k % 2 = 0
         THEN LET h == BigPow10(k \div 2) IN BigMul(h, h)
         ELSE BigMulAdd(BigPow10(k - 1), 10, 0)

\* How many binary digits a has.
RECURSIVE LimbBitLen(_)
LimbBitLen(n) == IF n = 0 THEN 0 ELSE 1 + LimbBitLen(n \div 2)
BitLen(a) ==
    IF a = << >> THEN 0 ELSE LimbBits * (Len(a) - 1) + LimbBitLen(a[Len(a)])

\* Binary digit i of a, the lowest being digit 0.
BitAt(a, i) == (a[(i \div LimbBits) + 1] \div Pow2(i % LimbBits)) % 2
\* How many zero binary digits a, not 0, ends with.
TrailingZeros(a) ==
    CHOOSE i \in 0..(BitLen(a) - 1) :
        BitAt(a, i) = 1 /\ \A j \in 0..(i - 1) : BitAt(a, j) = 0

\* a * 2^k and the whole part of a / 2^k.
ShiftLeft(a, k) ==
    IF a = << >> THEN << >>
    ELSE IF k < LimbBits THEN BigMulAdd(a, Pow2(k), 0)
    ELSE [i \in 1..(k \div LimbBits) |-> 0] \o BigMulAdd(a, Pow2(k % LimbBits), 0)
ShiftRight(a, k) ==
    IF k \div LimbBits >= Len(a) THEN << >>
    ELSE LET h == SubSeq(a, (k \div LimbBits) + 1, Len(a))
             r == k % LimbBits
         IN  BigTrim([i \in 1..Len(h) |->
                         (h[i] \div Pow2(r))
                         + (LimbAt(h, i + 1) % Pow2(r)) * Pow2(LimbBits - r)])

\* Quotient and remainder of a / b, five binary digits of a at a time (three
\* such chunks make a limb), from chunk i up.
ChunkBits == 5
ChunkBase == 32
Chunk(a, i) == (a[(i \div 3) + 1] \div Pow2(ChunkBits * (i % 3))) % ChunkBase
QuotientDigit(r, b) ==
    CHOOSE d \in 0..(ChunkBase - 1) :
        BigCmp(BigMulAdd(b, d, 0), r) <= 0 /\ BigCmp(r, BigMulAdd(b, d + 1, 0)) < 0
DivideNext(q, r, b) ==
    LET d == QuotientDigit(r, b)
    IN  [q |-> BigMulAdd(q, ChunkBase, d), r |-> BigSub(r, BigMulAdd(b, d, 0))]
\* A zero remainder and a zero chunk leave the remainder zero.
DivideChunk(prev, c, b) ==
    IF prev.r = << >> /\ c = 0
    THEN [q |-> BigMulAdd(prev.q, ChunkBase, 0), r |-> << >>]
    ELSE DivideNext(prev.q, BigMulAdd(prev.r, ChunkBase, c), b)
\* The limbs of a that lie above the lowest n hold less than b when b has as
\* many limbs as they and one more: the quotient starts below them.
LowLimbs(a, b) == IF Len(a) + 1 > Len(b) THEN Len(a) - Len(b) + 1 ELSE 0
RECURSIVE BigDivMod(_, _, _)
BigDivMod(a, b, i) ==
    IF i >= 3 * LowLimbs(a, b)
    THEN [q |-> << >>, r |-> SubSeq(a, LowLimbs(a, b) + 1, Len(a))]
    ELSE DivideChunk(BigDivMod(a, b, i + 1), Chunk(a, i), b)

\* ---- C doubles
\* A double that is not negative: m * 2^x with m odd (0 is m = << >>,
\* x = 0), or the infinity an operation overflows to.
Double(m, x) == [inf |-> FALSE, m |-> m, x |-> x]
Zero == Double(<< >>, 0)
Infinity == [inf |-> TRUE, m |-> << >>, x |-> 0]

OddPart(m, x) ==
    IF m = << >> THEN Zero
    ELSE Double(ShiftRight(m, TrailingZeros(m)), x + TrailingZeros(m))

\* The exponent of the last binary digit a double near q * 2^e keeps: 53
\* digits, and no digit below 2^-1074.
UlpExponent(q, e) ==
    IF BitLen(q) - 1 + e - 52 > 0 - 1074 THEN BitLen(q) - 1 + e - 52
    ELSE 0 - 1074

\* Whether a number with whole part 2^k * m + rem, rem below 2^k, and a
\* fraction that is not 0 iff sticky, rounds up to 2^k * (m + 1): to the
\* nearest, a tie to the even m.
RoundsUp(m, cmp, sticky) == cmp = 1 \/ (cmp = 0 /\ (sticky \/ (m # << >> /\ m[1] % 2 = 1)))
MaxFinite(d) == IF BitLen(d.m) + d.x > 1024 THEN Infinity ELSE d
RoundAt(q, m, k, sticky, u) ==
    IF RoundsUp(m, BigCmp(BigSub(q, ShiftLeft(m, k)), ShiftLeft(<< 1 >>, k - 1)),
                sticky)
    THEN MaxFinite(OddPart(BigMulAdd(m, 1, 1), u))
    ELSE MaxFinite(OddPart(m, u))
RoundTo(q, sticky, e, u) ==
    IF u - e <= 0 THEN MaxFinite(OddPart(q, e))
    ELSE RoundAt(q, ShiftRight(q, u - e), u - e, sticky, u)

\* The double nearest to (q + f) * 2^e for q > 0 and a fraction f that is
\* not 0 iff sticky (q has 55 binary digits at least when sticky).
RoundBig(q, sticky, e) == RoundTo(q, sticky, e, UlpExponent(q, e))

\* The double nearest to a / b * 2^s.
RoundRatioBy(a, b, s, t) ==
    LET dm == BigDivMod(ShiftLeft(a, t), b, 0)
    IN  RoundBig(dm.q, dm.r # << >>, s - t)
RoundRatio(a, b, s) ==
    IF a = << >> THEN Zero
    ELSE RoundRatioBy(a, b, s, IF 55 + BitLen(b) - BitLen(a) > 0
                               THEN 55 + BitLen(b) - BitLen(a) ELSE 0)

\* static double e[] = {1., 1e1, ..., 1e308}: the doubles nearest to the
\* powers of ten.
PowerOfTen(k) == RoundBig(BigPow10(k), FALSE, 0)

\* x * y and x / y of doubles that are not infinite, y not 0.
DoubleMul(x, y) ==
    IF x.m = << >> \/ y.m = << >> THEN Zero
    ELSE RoundBig(BigMul(x.m, y.m), FALSE, x.x + y.x)
DoubleDiv(x, y) == IF x.inf THEN x ELSE RoundRatio(x.m, y.m, x.x - y.x)

\* A whole number as a double.
DoubleOf(n) == IF n = << >> THEN Zero ELSE RoundBig(n, FALSE, 0)
\* A double that is a whole number, as that number.
WholeOf(d) == ShiftLeft(d.m, d.x)

\* number = number * 10. + (*p - '0') over the digits read, number being a
\* double: each product and each sum is rounded (neither needs it while
\* the sum stays below 2^53).
NextNumber(n, c) ==
    IF BitLen(n) + 4 <= 53 THEN BigMulAdd(n, 10, DigitVal(c))
    ELSE WholeOf(DoubleOf(BigAdd(WholeOf(DoubleOf(BigMulAdd(n, 10, 0))),
                                 BigNorm(<< DigitVal(c) >>))))
RECURSIVE NumberOf(_)
NumberOf(digits) ==
    IF digits = << >> THEN << >>
    ELSE NextNumber(NumberOf(SubSeq(digits, 1, Len(digits) - 1)),
                    digits[Len(digits)])

\* ---- the float parser (precise_xstrtod)
\* int max_digits = 17: the digits of the number it takes into account, and
\* the digits of an exponent it reads.
MaxDigits == 17
Min(a, b) == IF a < b THEN a ELSE b

\* Digits with an optional decimal point: the digits taken, leading zeros
\* included (17 at most: a further digit before the point counts as a
\* factor of ten, a further digit after it is skipped), the power of ten
\* they are to be scaled by, and the text left.
FractionOf(ip, extra, c) ==
    [digits |-> ip \o SubSeq(c, 1, Min(MaxDigits - Len(ip), DigitPrefixLen(c))),
     e |-> extra - Min(MaxDigits - Len(ip), DigitPrefixLen(c)),
     rest |-> AfterDigits(c)]
MantissaOf(ip, extra, b) ==
    IF b # << >> /\ Head(b) = "." THEN FractionOf(ip, extra, Tail(b))
    ELSE [digits |-> ip, e |-> extra, rest |-> b]
CsvMantissa(a) ==
    MantissaOf(SubSeq(a, 1, Min(MaxDigits, DigitPrefixLen(a))),
               DigitPrefixLen(a) - Min(MaxDigits, DigitPrefixLen(a)),
               AfterDigits(a))

\* An optional exponent: e or E, an optional sign, one digit at least and
\* 17 at most.
ExponentOf(neg, h) ==
    [ok |-> DigitPrefixLen(h) > 0,
     val |-> IF neg
             THEN 0 - DigitsValue(SubSeq(h, 1, Min(MaxDigits, DigitPrefixLen(h))), 0)
             ELSE DigitsValue(SubSeq(h, 1, Min(MaxDigits, DigitPrefixLen(h))), 0),
     rest |-> SubSeq(h, Min(MaxDigits, DigitPrefixLen(h)) + 1, Len(h))]
CsvExponent(d) ==
    IF d # << >> /\ Head(d) \in {"e", "E"}
    THEN ExponentOf(IsNeg(Tail(d)), SkipSign(Tail(d)))
    ELSE [ok |-> TRUE, val |-> 0, rest |-> d]

\* The number scaled by the power of ten: out of range (ERANGE, with
\* HUGE_VAL) above 10^308, one product or quotient down to 10^-308, two
\* quotients below, 0 below 10^-616.
Scaled(number, exponent) ==
    IF exponent > 308 THEN Infinity
    ELSE IF exponent > 0 THEN DoubleMul(number, PowerOfTen(exponent))
    ELSE IF exponent < 0 - 616 THEN Zero
    ELSE IF exponent < 0 - 308
         THEN DoubleDiv(DoubleDiv(number, PowerOfTen(0 - 308 - exponent)),
                        PowerOfTen(308))
    ELSE DoubleDiv(number, PowerOfTen(0 - exponent))

\* A field as the float parser of read_csv reads it: blanks, an optional
\* sign, digits with an optional decimal point (one digit at least), an
\* optional exponent, blanks.  ok tells whether the whole field was read
\* and the value is in range; d is the magnitude read.
NotAFloat == [ok |-> FALSE, neg |-> FALSE, d |-> Zero]
FloatOf(neg, man, ex) ==
    IF man.digits # << >> /\ ex.ok /\ LStripOf(ex.rest, CsvSpaceChars) = << >>
    THEN LET d == Scaled(DoubleOf(NumberOf(man.digits)), man.e + ex.val)
         IN  IF d.inf THEN NotAFloat ELSE [ok |-> TRUE, neg |-> neg, d |-> d]
    ELSE NotAFloat
FloatOfMantissa(neg, man) == FloatOf(neg, man, CsvExponent(man.rest))
SignedFloat(t) == FloatOfMantissa(IsNeg(t), CsvMantissa(SkipSign(t)))
CsvFloat(f) == SignedFloat(LStripOf(f, CsvSpaceChars))

\* The words the float parser reads as an infinity, whatever their case.
CsvPosInfWords ==
    { <<"I", "N", "F">>, <<"+", "I", "N", "F">>,
      <<"I", "N", "F", "I", "N", "I", "T", "Y">>,
      <<"+", "I", "N", "F", "I", "N", "I", "T", "Y">> }
CsvNegInfWords ==
    { <<"-", "I", "N", "F">>, <<"-", "I", "N", "F", "I", "N", "I", "T", "Y">> }

\* A field read_csv converts to a float.
IsCsvFloat(f) ==
    CsvFloat(f).ok \/ Upper(f) \in CsvPosInfWords \cup CsvNegInfWords

\* A field read_csv converts to a bool: TRUE or FALSE, whatever the case.
IsCsvBool(f) ==
    Upper(f) \in {<<"T", "R", "U", "E">>, <<"F", "A", "L", "S", "E">>}

\* A key of prev_dict: a Python str, a number (the column was inferred
\* numeric), an infinity, a bool, or a NaN (n tells the NaN objects apart).
\* A number is n when it is a whole number below 2^31 in size, so that 7
\* and 7.0 are one key, and else the double n * f * 2^e with n the sign and
\* f odd.
StrKey(s) == [t |-> "str", s |-> s, n |-> 0, e |-> 0, f |-> << >>]
NumKey(n) == [t |-> "num", s |-> << >>, n |-> n, e |-> 0, f |-> << >>]
DoubleKey(sign, d) ==
    IF d.x >= 0 /\ BitLen(d.m) + d.x <= 31 THEN NumKey(sign * IntOfBig(WholeOf(d)))
    ELSE [t |-> "num", s |-> << >>, n |-> sign, e |-> d.x, f |-> d.m]
FloatKeyOf(x) == DoubleKey(IF x.neg THEN 0 - 1 ELSE 1, x.d)
InfKey(neg) ==
    [t |-> "inf", s |-> << >>, n |-> IF neg THEN 0 - 1 ELSE 1, e |-> 0, f |-> << >>]
BoolKey(b) ==
    [t |-> "bool", s |-> << >>, n |-> IF b THEN 1 ELSE 0, e |-> 0, f |-> << >>]
NanKey(i) == [t |-> "nan", s |-> << >>, n |-> i, e |-> 0, f |-> << >>]

\* read_csv infers one type for the whole sku column from the fields that
\* are not NA tokens, trying int64, float64, bool and then object (str) in
\* this order.  (An integer column with NA fields is stored as float64.)
SkuColumnType(rows) ==
    LET fields == {rows[i].sku : i \in 1..Len(rows)} \ CsvNaTokens
    IN  IF \A f \in fields : IsCsvInt(f) THEN "int64"
        ELSE IF \A f \in fields : IsCsvFloat(f) THEN "float64"
        ELSE IF \A f \in fields : IsCsvBool(f) THEN "bool"
        ELSE "object"

\* prev_df["sku"][i] as read back.  A numeric column yields one NaN object
\* per row; a bool or str column holds the one object np.nan in every NA
\* row.
CsvKey(f, i, type) ==
    IF f \in CsvNaTokens
    THEN IF type \in {"int64", "float64"} THEN NanKey(i) ELSE NanKey(0)
    ELSE IF type = "int64" THEN NumKey(CsvIntVal(f))
    ELSE IF type = "float64"
         THEN IF Upper(f) \in CsvPosInfWords THEN InfKey(FALSE)
              ELSE IF Upper(f) \in CsvNegInfWords THEN InfKey(TRUE)
              ELSE FloatKeyOf(CsvFloat(f))
    ELSE IF type = "bool" THEN BoolKey(Upper(f) = <<"T", "R", "U", "E">>)
    ELSE StrKey(f)

\* prev_df["sku"] as read back, row by row.
CsvSkuKeys(rows) ==
    LET type == SkuColumnType(rows)
    IN  [i \in 1..Len(rows) |-> CsvKey(rows[i].sku, i, type)]

\* The last row that holds the key k.
LastIndex(key, k) ==
    CHOOSE i \in 1..Len(key) : key[i] = k /\ \A j \in (i + 1)..Len(key) : key[j] # k

\* float("nan"), what read_csv makes of an NA field of a numeric column.
\* It is no number: it is kept apart from every stock and every difference
\* of stocks as the one integer none of them reaches, and what is done with
\* numbers says what it does with it.
NaN == 0 - 2147483647 - 1
IsNaN(x) == x = NaN

\* prev_df["stock"][i] as read back: the column holds the integers written,
\* and NaN in the rows that have no stock field (the column is then
\* float64, each integer the float equal to it).
CsvStock(f) == IF f \in CsvNaTokens THEN NaN ELSE CsvIntVal(f)

DictOf(key, rows) ==
    [k \in {key[i] : i \in 1..Len(key)} |-> CsvStock(rows[LastIndex(key, k)].stock)]

\* prev_df = pd.read_csv(...); prev_dict = dict(zip(prev_df["sku"],
\* prev_df["stock"])): the rows are those read_csv finds in the text of the
\* file, and a later row replaces an earlier one with an equal key.
LoadPrevDict(file) ==
    IF ~file.exists THEN << >>
    ELSE LET rows == ReadCsv(file) IN DictOf(CsvSkuKeys(rows), rows)

\* Variant: an unseen SKU is compared with 0 instead of with itself.
PrevOf_DefaultZero(pd, item) ==
    IF StrKey(item.sku) \in DOMAIN pd THEN pd[StrKey(item.sku)] ELSE 0

\* prev_dict.get(item["sku"], item["stock"])
PrevOf(pd, item) ==
    IF StrKey(item.sku) \in DOMAIN pd THEN pd[StrKey(item.sku)] ELSE item.stock


\* -------------------------------------------------------------- diff engine
\* a < b and a <= b of Python numbers: a comparison with nan is False.
Less(a, b) == ~IsNaN(a) /\ ~IsNaN(b) /\ a < b
LessEq(a, b) == ~IsNaN(a) /\ ~IsNaN(b) /\ a <= b

\* change = item["stock"] - prev: a difference with nan is nan.
ChangeOf(stock, prev) == IF IsNaN(prev) THEN NaN ELSE stock - prev

\* status = "RESTOCKED" if change > 0 else "SOLD" if change < 0 else "UNCHANGED"
StatusOf(change) ==
    IF Less(0, change) THEN "RESTOCKED"
    ELSE IF Less(change, 0) THEN "SOLD" ELSE "UNCHANGED"

\* current_alert = "CRITICAL" if item["stock"] <= CRITICAL_STOCK else ...
CurrentAlert(stock) ==
    IF stock <= CRITICAL_STOCK THEN "CRITICAL"
    ELSE IF stock <= WARNING_STOCK THEN "WARNING" ELSE "OK"

\* Variant: the previous tier is cut with < where the current one uses <=.
PrevAlert_Strict(prev) ==
    IF Less(prev, CRITICAL_STOCK) THEN "CRITICAL"
    ELSE IF Less(prev, WARNING_STOCK) THEN "WARNING" ELSE "OK"

\* prev_alert = "CRITICAL" if prev <= CRITICAL_STOCK else ...
PrevAlert(prev) ==
    IF LessEq(prev, CRITICAL_STOCK) THEN "CRITICAL"
    ELSE IF LessEq(prev, WARNING_STOCK) THEN "WARNING" ELSE "OK"

\* Variant: the elif only excludes a previous WARNING, so a move from
\* CRITICAL to WARNING is flagged.
FlagOf_WarningAfterCritical(current_alert, prev_alert) ==
    IF current_alert = "CRITICAL" /\ prev_alert # "CRITICAL" THEN "new_critical"
    ELSE IF current_alert = "WARNING" /\ prev_alert # "WARNING"
         THEN "new_warning"
         ELSE "none"

\* The if / elif that appends the item to new_critical or to new_warning.
FlagOf(current_alert, prev_alert) ==
    IF current_alert = "CRITICAL" /\ prev_alert # "CRITICAL" THEN "new_critical"
    ELSE IF current_alert = "WARNING" /\ prev_alert \notin {"WARNING", "CRITICAL"}
         THEN "new_warning"
         ELSE "none"

\* The values one iteration of the loop computes for an item.
LoopLocals(item, pd) ==
    LET prev == PrevOf(pd, item)
        change == ChangeOf(item.stock, prev)
    IN  [prev |-> prev,
         change |-> change,
         status |-> StatusOf(change),
         current_alert |-> CurrentAlert(item.stock),
         prev_alert |-> PrevAlert(prev),
         flag |-> FlagOf(CurrentAlert(item.stock), PrevAlert(prev))]

\* The dict appended to report.
ReportRow(item, loc) ==
    [SKU |-> item.sku,
     Product |-> item.name,
     GroupID |-> item.group_id,
     CurrentStock |-> item.stock,
     PreviousStock |-> loc.prev,
     Change |-> loc.change,
     Status |-> loc.status,
     AlertLevel |-> loc.current_alert]

\* The items the loop appended to one of the two lists, in loop order.
RECURSIVE Flagged(_, _, _)
Flagged(cur, pd, flag) ==
    IF cur = << >> THEN << >>
    ELSE IF LoopLocals(Head(cur), pd).flag = flag
         THEN << Head(cur) >> \o Flagged(Tail(cur), pd, flag)
         ELSE Flagged(Tail(cur), pd, flag)

\* ------------------------------------------------------------------- report
\* x.map({"CRITICAL": 0, "WARNING": 1, "OK": 2, "UNCHANGED": 3})
SortKey(level) ==
    CASE level = "CRITICAL" -> 0
      [] level = "WARNING" -> 1
      [] level = "OK" -> 2
      [] OTHER -> 3

\* df.sort_values("Alert Level", key=...) with the default kind="quicksort":
\* the result is ordered by the key; the order of rows with equal keys is
\* whatever the sort in use leaves (quicksort is not a stable sort).
SortOrders(rows) ==
    { o \in Permutations(1..Len(rows)) :
        \A i \in 1..(Len(rows) - 1) :
            SortKey(rows[o[i]].AlertLevel) <= SortKey(rows[o[i + 1]].AlertLevel) }

\* ------------------------------------------------------------- notification
\* os.environ.get("RECIPIENT_EMAILS", "").split(",")
RECURSIVE SplitComma(_, _)
SplitComma(s, piece) ==
    IF s = << >> THEN << piece >>
    ELSE IF Head(s) = "," THEN << piece >> \o SplitComma(Tail(s), << >>)
    ELSE SplitComma(Tail(s), Append(piece, Head(s)))

\* [e.strip() for e in ... if e.strip()]
RECURSIVE StripNonEmpty(_)
StripNonEmpty(parts) ==
    IF parts = << >> THEN << >>
    ELSE IF Strip(Head(parts)) # << >>
         THEN << Strip(Head(parts)) >> \o StripNonEmpty(Tail(parts))
         ELSE StripNonEmpty(Tail(parts))

\* RECIPIENT_EMAILS; an unset variable reads as "".
RecipientEmails(var) ==
    StripNonEmpty(SplitComma(IF var = None THEN << >> ELSE var[1], << >>))

\* Truth value of os.environ.get(...): None and "" are false.
Truthy(var) == var # None /\ var[1] # << >>

\* Variant: the guard does not look at the recipient list.
ShouldNotify_NoRecipients(nc, nw, e) ==
    /\ (nc # << >> \/ nw # << >>)
    /\ Truthy(e.EMAIL_ADDRESS)
    /\ Truthy(e.EMAIL_PASSWORD)

\* if (new_critical or new_warning) and EMAIL_ADDRESS and EMAIL_PASSWORD
\*    and RECIPIENT_EMAILS:
ShouldNotify(nc, nw, e) ==
    /\ (nc # << >> \/ nw # << >>)
    /\ Truthy(e.EMAIL_ADDRESS)
    /\ Truthy(e.EMAIL_PASSWORD)
    /\ RecipientEmails(e.RECIPIENT_EMAILS) # << >>

\* Variant: the lines of a group are written last item first.
BodyLines_Reversed(its) ==
    [i \in 1..Len(its) |->
        [sku |-> its[Len(its) + 1 - i].sku,
         name |-> its[Len(its) + 1 - i].name,
         stock |-> its[Len(its) + 1 - i].stock]]

\* "- SKU: {sku} | {name} | Stock: {stock}" for every item of a list
BodyLines(its) ==
    [i \in 1..Len(its) |->
        [sku |-> its[i].sku, name |-> its[i].name, stock |-> its[i].stock]]

\* Subject counts and the two groups of body lines.
BuildMail(nc, nw) ==
    [n_critical |-> Len(nc), n_warning |-> Len(nw),
     critical |-> BodyLines(nc), warning |-> BodyLines(nw)]


\* ------------------------------------------------------------------- inputs
\* The <SHOPITEM> elements a feed is made of.  SKUs: A1 (written " a1" or
\* "A1", under two product names), 07 (all digits) and one that holds a
\* carriage return after A1; stocks on both sides of the two thresholds,
\* one unparsable, one negative; one element has no <SKLADOVOST> tag.
FeedEntries ==
    { Entry(Some(<<" ", "a", "1">>), Some(<<"1", "0">>), Some(<<"O", "i", "l">>), None),
      Entry(Some(<<"A", "1">>), Some(<<"2", "1">>), Some(<<"O", "i", "l">>), None),
      Entry(Some(<<"A", "1">>), Some(<<" ", "2", "0">>), None, Some(<<"G">>)),
      Entry(Some(<<"A", "1">>), Some(<<"x">>), Some(<<"C", "a", "n">>), None),
      Entry(Some(<<"0", "7">>), Some(<<"-", "3">>), Some(<<"C", "a", "p">>), None),
      Entry(Some(<<"A", "1", "\r", "B">>), Some(<<"5">>), None, None),
      Entry(Some(<<"B">>), None, None, None) }

Feeds == UNION { [1..n -> FeedEntries] : n \in 0..MaxFeed }

\* The SKU column of my_skus.xlsx, cell by cell.
SkuFiles ==
    { << <<"a", "1", " ">>, <<"0", "7">>, <<"B">>, <<"a", "1", "\r", "b">> >>,
      << <<"0", "7">> >> }

\* my_skus = ...["SKU"].astype(str).str.strip().str.upper().tolist()
NormalizeSkus(cells) == [i \in 1..Len(cells) |-> Upper(Strip(cells[i]))]

\* The three environment variables of lines 18-20.
Env(addr, pw, rcpt) ==
    [EMAIL_ADDRESS |-> addr, EMAIL_PASSWORD |-> pw, RECIPIENT_EMAILS |-> rcpt]

Environments ==
    { Env(Some(<<"m">>), Some(<<"p">>), Some(<<"r", ",", " ", "s">>)),
      Env(None, Some(<<"p">>), Some(<<"r">>)),
      Env(Some(<<"m">>), Some(<< >>), Some(<<"r">>)),
      Env(Some(<<"m">>), Some(<<"p">>), Some(<<" ", ",">>)) }

NoEnv == Env(None, None, None)

\* -------------------------------------------------------------------- state
VARIABLES
    pc,            \* where the script is: idle, fetch, load_skus, load_prev,
                   \* diff, save, report, notify, exit
    exit_code,     \* process exit status once pc = "exit"
    diagnostic,    \* what the run printed when it gave up ("" otherwise)
    env,           \* the process environment (lines 18-20), known to the
                   \* model from the guard of line 112 on, its only use
    xml,           \* the feed received
    items,         \* parsed feed elements
    my_skus,       \* the tracked SKUs
    current,       \* items restricted to tracked SKUs
    prev_dict,     \* the snapshot as loaded
    locals,        \* per item: prev, change, status, current_alert, prev_alert
    report,        \* report rows in loop order
    new_critical,
    new_warning,
    snapshot,      \* the file inventory_previous.csv
    report_file,   \* None, or the rows written by df.to_excel
    mail,          \* None, or the message handed to the SMTP block
    smtp_calls,    \* times this run entered the SMTP block
    smtp_result,   \* "none", "sent" or "failed"
    reads,         \* times this run read the snapshot file
    writes,        \* times this run wrote the snapshot file
    snap_at_start, \* the snapshot file as it was when this run started
    last_run       \* the run before this one: whether it completed, its
                   \* inputs and tracked items, whether it flagged items
                   \* no mail delivered

vars == << pc, exit_code, diagnostic, env, xml, items, my_skus, current, prev_dict, locals,
           report, new_critical, new_warning, snapshot, report_file, mail,
           smtp_calls, smtp_result, reads, writes, snap_at_start, last_run >>

runVars == << xml, items, my_skus, current, prev_dict, locals, report,
              new_critical, new_warning, report_file, mail, smtp_calls,
              smtp_result, reads, writes >>

NoRun ==
    [ok |-> FALSE, xml |-> << >>, skus |-> << >>, current |-> << >>,
     undelivered |-> FALSE]

Init ==
    /\ pc = "idle"
    /\ exit_code = 0
    /\ diagnostic = ""
    /\ env = NoEnv
    /\ xml = << >>
    /\ items = << >>
    /\ my_skus = << >>
    /\ current = << >>
    /\ prev_dict = << >>
    /\ locals = << >>
    /\ report = << >>
    /\ new_critical = << >>
    /\ new_warning = << >>
    /\ snapshot = NoFile
    /\ report_file = None
    /\ mail = None
    /\ smtp_calls = 0
    /\ smtp_result = "none"
    /\ reads = 0
    /\ writes = 0
    /\ snap_at_start = NoFile
    /\ last_run = NoRun

\* What the run that just ended leaves for the next one to be compared with.
RunRecord(code) ==
    IF code = 0
    THEN [ok |-> TRUE, xml |-> xml, skus |-> my_skus, current |-> current,
          undelivered |-> /\ (new_critical # << >> \/ new_warning # << >>)
                          /\ smtp_result # "sent"]
    ELSE NoRun

\* sys.exit(code), or the interpreter ending on an uncaught exception (1),
\* or the end of the script (0).
Exit(code, msg) ==
    /\ pc' = "exit"
    /\ exit_code' = code
    /\ diagnostic' = msg

\* A new process starts: module-level state is fresh.
StartRun ==
    /\ pc \in {"idle", "exit"}
    /\ env' = NoEnv
    /\ pc' = "fetch"
    /\ exit_code' = 0
    /\ diagnostic' = ""
    /\ xml' = << >>
    /\ items' = << >>
    /\ my_skus' = << >>
    /\ current' = << >>
    /\ prev_dict' = << >>
    /\ locals' = << >>
    /\ report' = << >>
    /\ new_critical' = << >>
    /\ new_warning' = << >>
    /\ report_file' = None
    /\ mail' = None
    /\ smtp_calls' = 0
    /\ smtp_result' = "none"
    /\ reads' = 0
    /\ writes' = 0
    /\ snap_at_start' = snapshot
    /\ last_run' = IF pc = "exit" THEN RunRecord(exit_code) ELSE NoRun
    /\ UNCHANGED snapshot

\* Lines 23-29: requests.get raises, or the status is an error.
FetchFail ==
    /\ pc = "fetch"
    /\ Exit(1, "FAILED to fetch feed")
    /\ UNCHANGED << env, runVars, snapshot, snap_at_start, last_run >>

\* Lines 23-52: the feed arrives and is parsed.
FetchAndParse ==
    /\ pc = "fetch"
    /\ \E feed \in Feeds :
        /\ xml' = feed
        /\ items' = ParseFeed(feed)
    /\ pc' = "load_skus"
    /\ UNCHANGED << exit_code, diagnostic, env, my_skus, current, prev_dict, locals, report,
                    new_critical, new_warning, snapshot, report_file, mail,
                    smtp_calls, smtp_result, reads, writes, snap_at_start,
                    last_run >>

\* Lines 55-57: my_skus.xlsx does not exist.
SkusFileMissing ==
    /\ pc = "load_skus"
    /\ Exit(1, "MISSING: my_skus.xlsx not found")
    /\ UNCHANGED << env, runVars, snapshot, snap_at_start, last_run >>

\* Lines 59-64: the tracked SKUs are read, the items filtered, and the run
\* exits when nothing matches.
LoadSkus ==
    /\ pc = "load_skus"
    /\ \E cells \in SkuFiles :
        /\ my_skus' = NormalizeSkus(cells)
        /\ current' = FilterTracked(items, NormalizeSkus(cells))
    /\ IF NoMatch(current')
       THEN Exit(1, "WARNING: No matching SKUs found")
       ELSE pc' = "load_prev" /\ UNCHANGED << exit_code, diagnostic >>
    /\ UNCHANGED << env, xml, items, prev_dict, locals, report, new_critical,
                    new_warning, snapshot, report_file, mail, smtp_calls,
                    smtp_result, reads, writes, snap_at_start, last_run >>

\* Lines 67-70: the snapshot file, when present, is read into prev_dict.
LoadPrevious ==
    /\ pc = "load_prev"
    /\ prev_dict' = LoadPrevDict(snapshot)
    /\ reads' = IF snapshot.exists THEN reads + 1 ELSE reads
    /\ pc' = "diff"
    /\ UNCHANGED << exit_code, diagnostic, env, xml, items, my_skus, current, locals, report,
                    new_critical, new_warning, snapshot, report_file, mail,
                    smtp_calls, smtp_result, writes, snap_at_start, last_run >>

\* Lines 73-99: the diff loop over current.
Diff ==
    /\ pc = "diff"
    /\ locals' = [i \in 1..Len(current) |-> LoopLocals(current[i], prev_dict)]
    /\ report' = [i \in 1..Len(current) |->
                     ReportRow(current[i], LoopLocals(current[i], prev_dict))]
    /\ new_critical' = Flagged(current, prev_dict, "new_critical")
    /\ new_warning' = Flagged(current, prev_dict, "new_warning")
    /\ pc' = "save"
    /\ UNCHANGED << exit_code, diagnostic, env, xml, items, my_skus, current, prev_dict,
                    snapshot, report_file, mail, smtp_calls, smtp_result, reads,
                    writes, snap_at_start, last_run >>

\* Lines 101-102: the snapshot file is overwritten with current.
SaveState ==
    /\ pc = "save"
    /\ snapshot' = ToCsv(current)
    /\ writes' = writes + 1
    /\ pc' = "report"
    /\ UNCHANGED << exit_code, diagnostic, env, xml, items, my_skus, current, prev_dict,
                    locals, report, new_critical, new_warning, report_file, mail,
                    smtp_calls, smtp_result, reads, snap_at_start, last_run >>

\* Lines 104-109: the rows are sorted and written to the report file.
GenerateReport ==
    /\ pc = "report"
    /\ \E o \in SortOrders(report) :
        report_file' = Some([i \in 1..Len(report) |-> report[o[i]]])
    /\ pc' = "notify"
    /\ UNCHANGED << exit_code, diagnostic, env, xml, items, my_skus, current, prev_dict,
                    locals, report, new_critical, new_warning, snapshot, mail,
                    smtp_calls, smtp_result, reads, writes, snap_at_start,
                    last_run >>

\* Lines 104-109: building or writing the report raises (to_excel cannot
\* write the file); the exception is not caught and ends the process.
ReportFails ==
    /\ pc = "report"
    /\ Exit(1, "Traceback")
    /\ UNCHANGED << env, runVars, snapshot, snap_at_start, last_run >>

\* Lines 112, 153-154: the guard is false under the environment the process
\* was started with; the script runs to its end.
NotifySkip ==
    /\ pc = "notify"
    /\ \E e \in Environments :
        /\ env' = e
        /\ ~ShouldNotify(new_critical, new_warning, e)
    /\ Exit(0, "")
    /\ UNCHANGED << runVars, snapshot, snap_at_start, last_run >>

\* Lines 112-154: the guard is true; the message is built and the SMTP block
\* runs once.  An exception in it is caught and printed.
NotifySend ==
    /\ pc = "notify"
    /\ \E e \in Environments :
        /\ env' = e
        /\ ShouldNotify(new_critical, new_warning, e)
    /\ mail' = Some(BuildMail(new_critical, new_warning))
    /\ smtp_calls' = smtp_calls + 1
    /\ \E r \in {"sent", "failed"} : smtp_result' = r
    /\ Exit(0, "")
    /\ UNCHANGED << xml, items, my_skus, current, prev_dict, locals, report,
                    new_critical, new_warning, snapshot, report_file, reads,
                    writes, snap_at_start, last_run >>

Next ==
    \/ StartRun
    \/ FetchFail
    \/ FetchAndParse
    \/ SkusFileMissing
    \/ LoadSkus
    \/ LoadPrevious
    \/ Diff
    \/ SaveState
    \/ GenerateReport
    \/ ReportFails
    \/ NotifySkip
    \/ NotifySend

Spec == Init /\ [][Next]_vars


\* ==================================================================== claims
\* The alert tier of an integer stock as the specification defines it.
IsTier(t, stock) ==
    /\ t \in {"CRITICAL", "WARNING", "OK"}
    /\ (t = "CRITICAL" <=> stock <= CRITICAL_STOCK)
    /\ (t = "WARNING" <=> (CRITICAL_STOCK < stock /\ stock <= WARNING_STOCK))
    /\ (t = "OK" <=> stock > WARNING_STOCK)

\* classify(stock, c, w): CRITICAL iff stock <= c, WARNING iff c < stock <= w,
\* OK otherwise; a value that is no number passes neither comparison.
TierOf(stock) ==
    IF IsNaN(stock) THEN "OK"
    ELSE CHOOSE t \in {"CRITICAL", "WARNING", "OK"} : IsTier(t, stock)

\* Severity rank of a tier: lower is more severe.
Rank(t) == IF t = "CRITICAL" THEN 0 ELSE IF t = "WARNING" THEN 1 ELSE 2

\* The diff loop of this run has run.
DiffDone == pc \in {"save", "report", "notify", "exit"} /\ report # << >>

\* The snapshot of this run has been loaded into prev_dict.
PrevLoaded == pc \in {"diff", "save", "report", "notify"} \/ DiffDone

\* Whether the SKU of the i-th tracked observation is a key of prev_dict.
InSnapshot(i) == StrKey(current[i].sku) \in DOMAIN prev_dict

\* The previous value of the i-th tracked observation as the claims define
\* it: the snapshot value of its SKU, or its own stock.
PreviousValue(i) ==
    IF InSnapshot(i) THEN prev_dict[StrKey(current[i].sku)] ELSE current[i].stock

\* The elements of seq at the indices where keep is TRUE, in order.
RECURSIVE Pick(_, _)
Pick(seq, keep) ==
    IF seq = << >> THEN << >>
    ELSE IF Head(keep)
         THEN << Head(seq) >> \o Pick(Tail(seq), Tail(keep))
         ELSE Pick(Tail(seq), Tail(keep))

EntersCritical(i) ==
    TierOf(current[i].stock) = "CRITICAL" /\ TierOf(PreviousValue(i)) # "CRITICAL"

EntersWarning(i) ==
    TierOf(current[i].stock) = "WARNING" /\ TierOf(PreviousValue(i)) = "OK"

\* C1: after the diff loop, new_critical holds exactly the tracked
\* observations whose tier is CRITICAL while the tier of their previous value
\* is not, and new_warning exactly those whose tier is WARNING while the tier
\* of their previous value is OK, both in loop order; so CRITICAL -> WARNING
\* is never flagged and an item already CRITICAL is not flagged again.
C1_TierEntryRule ==
    DiffDone =>
        /\ new_critical =
              Pick(current, [i \in 1..Len(current) |-> EntersCritical(i)])
        /\ new_warning =
              Pick(current, [i \in 1..Len(current) |-> EntersWarning(i)])

\* C1 witness: one run flagged an OK -> WARNING move and a move into
\* CRITICAL.
C1_Witness ==
    /\ DiffDone
    /\ new_critical # << >>
    /\ new_warning # << >>
    /\ \E i \in 1..Len(current) : EntersWarning(i)

\* C3: an observation whose SKU is not in the loaded snapshot gets Previous
\* Stock = Current Stock, Change = 0, Status = UNCHANGED, and nothing with its
\* SKU is in new_critical or new_warning, whatever its stock.
C3_FirstSighting ==
    DiffDone =>
        \A i \in 1..Len(current) :
            ~InSnapshot(i) =>
                /\ report[i].SKU = current[i].sku
                /\ report[i].CurrentStock = current[i].stock
                /\ report[i].PreviousStock = current[i].stock
                /\ report[i].Change = 0
                /\ report[i].Status = "UNCHANGED"
                /\ \A j \in 1..Len(new_critical) :
                       new_critical[j].sku # current[i].sku
                /\ \A j \in 1..Len(new_warning) :
                       new_warning[j].sku # current[i].sku

\* C3 witness: a snapshot exists, and a SKU that is not in it is observed
\* with a stock at or below the critical threshold.
C3_Witness ==
    /\ DiffDone
    /\ snap_at_start.exists
    /\ \E i \in 1..Len(current) :
           ~InSnapshot(i) /\ current[i].stock <= CRITICAL_STOCK

\* C10: the tier the loop computes for the current stock and the tier it
\* computes for a previous stock that is an integer are both the
\* specification's tier of that number: CRITICAL iff s <= 10, WARNING iff
\* 10 < s <= 20, OK iff s > 20, exactly one of them for every s, negative s
\* included.
C10_ClassifyTotal ==
    DiffDone =>
        \A i \in 1..Len(current) :
            /\ IsTier(locals[i].current_alert, current[i].stock)
            /\ ~IsNaN(locals[i].prev) =>
                   IsTier(locals[i].prev_alert, locals[i].prev)
            /\ report[i].AlertLevel = locals[i].current_alert
            /\ \A t \in {"CRITICAL", "WARNING", "OK"} :
                   IsTier(t, current[i].stock) => t = locals[i].current_alert

\* C10 witness: a negative stock, and previous values on the two thresholds
\* that differ from the current stock, have been classified.
C10_Witness ==
    /\ DiffDone
    /\ \E i \in 1..Len(current) : current[i].stock < 0
    /\ \E i \in 1..Len(current) :
           /\ locals[i].prev \in {CRITICAL_STOCK, WARNING_STOCK}
           /\ locals[i].prev # current[i].stock


\* The tracked observations of the previous run, when it completed.
LastCurrent == last_run.current

\* This run reached the end of the script.
Completed == pc = "exit" /\ exit_code = 0

\* Items flagged by this run.
FlaggedItems ==
    {new_critical[k] : k \in 1..Len(new_critical)}
        \cup {new_warning[k] : k \in 1..Len(new_warning)}

\* C2: of two consecutive completed runs, the second flags a SKU only if the
\* SKU was observed in the first and its tier is now strictly more severe
\* than every tier it held there; a SKU in the same tier in both is not
\* flagged.
C2_FlagOnlyOnEscalation ==
    (Completed /\ last_run.ok) =>
        \A it \in FlaggedItems :
            /\ \E j \in 1..Len(LastCurrent) : LastCurrent[j].sku = it.sku
            /\ \A j \in 1..Len(LastCurrent) :
                   LastCurrent[j].sku = it.sku =>
                       Rank(TierOf(it.stock)) < Rank(TierOf(LastCurrent[j].stock))

\* C4: a run that follows a completed run and sees the same feed and the same
\* tracked SKUs reports every row UNCHANGED with Change 0 and flags nothing.
C4_Idempotent ==
    (DiffDone /\ last_run.ok /\ xml = last_run.xml /\ my_skus = last_run.skus) =>
        /\ \A i \in 1..Len(report) :
               report[i].Status = "UNCHANGED" /\ report[i].Change = 0
        /\ new_critical = << >>
        /\ new_warning = << >>

\* C5: the prev_dict loaded by the run that follows a completed run has
\* exactly the SKUs of that run's tracked observations as keys, each with the
\* stock observed.
C5_SnapshotRoundTrip ==
    (PrevLoaded /\ last_run.ok) =>
        /\ DOMAIN prev_dict =
              {StrKey(LastCurrent[j].sku) : j \in 1..Len(LastCurrent)}
        /\ \A j \in 1..Len(LastCurrent) :
               /\ StrKey(LastCurrent[j].sku) \in DOMAIN prev_dict
               /\ prev_dict[StrKey(LastCurrent[j].sku)] = LastCurrent[j].stock

\* C6: a run reads the snapshot at most once and before the diff, writes it
\* at most once and only after the diff, and a run that ends with a failure
\* leaves the snapshot file as it was when the run started.
C6_SnapshotOnlyOnSuccess ==
    /\ reads <= 1
    /\ writes <= 1
    /\ (reads = 1 => pc \notin {"fetch", "load_skus", "load_prev"})
    /\ (writes = 1 => DiffDone)
    /\ ((pc = "exit" /\ exit_code # 0) => snapshot = snap_at_start)

\* The run gave up for one of the three reasons of C7.
AbortedEarly ==
    /\ pc = "exit"
    /\ \/ diagnostic = "FAILED to fetch feed"
       \/ diagnostic = "MISSING: my_skus.xlsx not found"
       \/ current = << >>

\* C7: a run whose fetch failed, whose tracked-SKU file is missing or whose
\* feed matches no tracked SKU exits with a failure code, having written
\* neither the snapshot nor a report and having sent nothing.
C7_EarlyAbortWritesNothing ==
    AbortedEarly =>
        /\ exit_code = 1
        /\ snapshot = snap_at_start
        /\ writes = 0
        /\ report_file = None
        /\ mail = None
        /\ smtp_calls = 0

\* C7 witness: a feed with entries was parsed, none of them tracked, while a
\* snapshot with rows exists.
C7_Witness ==
    /\ pc = "exit"
    /\ diagnostic = "WARNING: No matching SKUs found"
    /\ items # << >>
    /\ snapshot.exists /\ snapshot.rows # << >>

\* Sender address, password and a non-empty recipient list are configured.
Configured(e) ==
    /\ e.EMAIL_ADDRESS # None /\ e.EMAIL_ADDRESS # Some(<< >>)
    /\ e.EMAIL_PASSWORD # None /\ e.EMAIL_PASSWORD # Some(<< >>)
    /\ e.RECIPIENT_EMAILS # None
    /\ \E k \in 1..Len(e.RECIPIENT_EMAILS[1]) :
           e.RECIPIENT_EMAILS[1][k] \notin SpaceChars \cup {","}

\* C8: a run enters the SMTP block at most once, and only when something was
\* flagged and mail is configured; a run that reaches the notification step
\* enters it exactly when something was flagged and mail is configured; and
\* a failed send still ends the run with exit status 0.
C8_NotifyOnceIffFlagged ==
    /\ smtp_calls <= 1
    /\ (smtp_calls = 1 =>
           (new_critical # << >> \/ new_warning # << >>) /\ Configured(env))
    /\ ((new_critical = << >> /\ new_warning = << >>) =>
           (smtp_calls = 0 /\ mail = None /\ smtp_result = "none"))
    /\ (Completed =>
           (smtp_calls = 1 <=>
               ((new_critical # << >> \/ new_warning # << >>) /\ Configured(env))))
    /\ (smtp_result # "none" => smtp_calls = 1 /\ Completed)

\* C8 witness: the send failed and the run still ended normally.
C8_Witness ==
    /\ Completed
    /\ smtp_calls = 1
    /\ smtp_result = "failed"
    /\ report_file # None

\* The rows of a report at one severity rank, in the order given.
RowsOfRank(rows, r) ==
    Pick(rows, [i \in 1..Len(rows) |-> Rank(rows[i].AlertLevel) = r])

\* C9: the written report is the diff rows ordered by severity rank, rows of
\* equal rank in the order the loop produced them.
C9_ReportStablySorted ==
    report_file # None =>
        report_file[1] =
            RowsOfRank(report, 0) \o RowsOfRank(report, 1) \o RowsOfRank(report, 2)


\* C11: the parser yields one observation for every feed element that has an
\* ID and a stock tag, whatever the stock text, and every observation's
\* stock is a non-negative integer; so is every stock written to the
\* snapshot.
C11_StockNonNegative ==
    /\ Len(items) =
          Cardinality({i \in 1..Len(xml) :
                          xml[i].ID_PRODUCT # None /\ xml[i].SKLADOVOST # None})
    /\ \A i \in 1..Len(items) : items[i].stock \in Nat
    /\ \A i \in 1..Len(snapshot.rows) : Head(snapshot.rows[i].stock) # "-"


\* C12: every report row has Previous Stock = the snapshot value of its SKU
\* (its own stock when the SKU is not in the snapshot), Change = Current
\* Stock - Previous Stock, and Status RESTOCKED iff Change > 0, SOLD iff
\* Change < 0, UNCHANGED iff Change = 0.
C12_ChangeAndStatus ==
    DiffDone =>
        /\ Len(report) = Len(current)
        /\ \A i \in 1..Len(report) :
               /\ report[i].SKU = current[i].sku
               /\ report[i].CurrentStock = current[i].stock
               /\ report[i].PreviousStock = PreviousValue(i)
               /\ ~IsNaN(report[i].PreviousStock)
               /\ report[i].Change = current[i].stock - PreviousValue(i)
               /\ report[i].Status \in {"RESTOCKED", "SOLD", "UNCHANGED"}
               /\ (report[i].Status = "RESTOCKED" <=> report[i].Change > 0)
               /\ (report[i].Status = "SOLD" <=> report[i].Change < 0)
               /\ (report[i].Status = "UNCHANGED" <=> report[i].Change = 0)

\* The SKU, name and current stock of each item of a list, in its order.
LinesFor(its) ==
    [i \in 1..Len(its) |->
        [sku |-> its[i].sku, name |-> its[i].name, stock |-> its[i].stock]]

\* C13: the subject counts of a notification are the sizes of new_critical
\* and new_warning, and each group of its body lists exactly the flagged
\* items of that severity, each with SKU, name and current stock, in the
\* order the diff loop met them in current.
C13_MailListsFlaggedInLoopOrder ==
    mail # None =>
        /\ mail[1].n_critical = Len(new_critical)
        /\ mail[1].n_warning = Len(new_warning)
        /\ mail[1].critical =
              LinesFor(Pick(current, [i \in 1..Len(current) |-> EntersCritical(i)]))
        /\ mail[1].warning =
              LinesFor(Pick(current, [i \in 1..Len(current) |-> EntersWarning(i)]))
        /\ Len(mail[1].critical) + Len(mail[1].warning) > 0

\* C13 witness: a mail lists two different items in one group, and the
\* written report has them in the other order.
C13_Witness ==
    /\ mail # None
    /\ report_file # None
    /\ Len(mail[1].critical) = 2
    /\ mail[1].critical[1] # mail[1].critical[2]
    /\ report_file[1][1].CurrentStock = mail[1].critical[2].stock
    /\ report_file[1][2].CurrentStock = mail[1].critical[1].stock


\* C14: a completed run leaves the snapshot at its current stocks whether or
\* not its notification went out; so when the run before flagged items that
\* no mail delivered (notification skipped, or the send failed) and this run
\* sees the same feed and tracked SKUs, this run flags nothing.
C14_UndeliveredNotRaisedAgain ==
    /\ Completed =>
           /\ snapshot.exists
           /\ Len(snapshot.rows) = Len(current)
           /\ \A i \in 1..Len(current) :
                  /\ snapshot.rows[i].sku = current[i].sku
                  /\ snapshot.rows[i].stock = IntText(current[i].stock)
    /\ (DiffDone /\ last_run.ok /\ last_run.undelivered
            /\ xml = last_run.xml /\ my_skus = last_run.skus) =>
           (new_critical = << >> /\ new_warning = << >>)


\* The SKUs the previous run observed.
LastSkus == {LastCurrent[j].sku : j \in 1..Len(LastCurrent)}

\* C15: when the previous run completed without observing a SKU, the
\* snapshot it left has no row for that SKU, whatever earlier runs saw; this
\* run finds the SKU in no key of prev_dict, reports it UNCHANGED with
\* Change 0 and does not flag it.
C15_DroppedSkuIsFirstSighting ==
    (DiffDone /\ last_run.ok) =>
        \A i \in 1..Len(current) :
            current[i].sku \notin LastSkus =>
                /\ \A r \in 1..Len(snap_at_start.rows) :
                       snap_at_start.rows[r].sku # current[i].sku
                /\ ~InSnapshot(i)
                /\ report[i].PreviousStock = current[i].stock
                /\ report[i].Change = 0
                /\ report[i].Status = "UNCHANGED"
                /\ \A it \in FlaggedItems : it.sku # current[i].sku

\* C16: every flagged item has a strictly negative Change and Status SOLD, no
\* item whose stock rose or stayed equal against the snapshot is flagged, and
\* no item is in both new_critical and new_warning.
C16_FlaggedOnlyWhenSold ==
    DiffDone =>
        /\ \A i \in 1..Len(current) :
               current[i] \in FlaggedItems =>
                   (Less(report[i].Change, 0) /\ report[i].Status = "SOLD")
        /\ \A i \in 1..Len(current) :
               LessEq(PreviousValue(i), current[i].stock) =>
                   current[i] \notin FlaggedItems
        /\ \A a \in 1..Len(new_critical) :
               \A b \in 1..Len(new_warning) : new_critical[a] # new_warning[b]
        /\ \A it \in FlaggedItems :
               \E i \in 1..Len(current) : current[i] = it

====
